---------------------------- MODULE Spec2Model ----------------------------
(***************************************************************************)
(* A model of the multimodal RAG pipeline: content extractors, chunker,    *)
(* vector index (FAISS wrapper), answer synthesizer and orchestrator.      *)
(*                                                                         *)
(* Python strings are sequences of one-character strings, so that          *)
(* whitespace cleaning, stripping, extension splitting and lower-casing    *)
(* are computed rather than assumed.  Every handler is one atomic action   *)
(* (the program is single-threaded and synchronous); the outcome of the    *)
(* last call is kept in the variable last until the caller returns.        *)
(***************************************************************************)
EXTENDS Integers, Sequences, FiniteSets, TLC

VARIABLES store, disk, last

vars == <<store, disk, last>>

(***************************************************************************)
(* Bounds of the model.                                                    *)
(***************************************************************************)
MaxBatch == 2      \* longest file list / document list handed to one call
MaxEntries == 2    \* largest number of entries the index may hold
EmbedDim == 2      \* dimensionality of the embedding service's vectors
MaxK == 2          \* largest k asked of a search
MaxRepeat == 12    \* most repetitions of a word in a Record's content
MaxText == 1200    \* longest repeated part of a Record's content

(***************************************************************************)
(* Strings.                                                                *)
(***************************************************************************)
Whitespace == {" ", "\n", "\t"}

IsSpace(c) == c \in Whitespace

RECURSIVE LStrip(_)
LStrip(t) ==
    IF t = <<>> THEN <<>>
    ELSE IF IsSpace(Head(t)) THEN LStrip(Tail(t)) ELSE t

RECURSIVE RStrip(_)
RStrip(t) ==
    IF t = <<>> THEN <<>>
    ELSE IF IsSpace(t[Len(t)]) THEN RStrip(SubSeq(t, 1, Len(t) - 1)) ELSE t

\* str.strip()
Strip(t) == RStrip(LStrip(t))

\* The first whitespace-free word of t, t having no leading whitespace.
RECURSIVE FirstWord(_)
FirstWord(t) ==
    IF t = <<>> \/ IsSpace(Head(t)) THEN <<>>
    ELSE <<Head(t)>> \o FirstWord(Tail(t))

\* str.split(): the maximal whitespace-free words of t, in order.
RECURSIVE Split(_)
Split(t) ==
    LET u == LStrip(t) IN
    IF u = <<>> THEN <<>>
    ELSE LET w == FirstWord(u) IN
         <<w>> \o Split(SubSeq(u, Len(w) + 1, Len(u)))

\* sep.join(words)
RECURSIVE Join(_, _)
Join(words, sep) ==
    IF words = <<>> THEN <<>>
    ELSE IF Len(words) = 1 THEN words[1]
    ELSE words[1] \o sep \o Join(Tail(words), sep)

Upper == <<"A", "D", "E", "G", "M", "P", "T", "X">>
Lowers == <<"a", "d", "e", "g", "m", "p", "t", "x">>

LowerChar(c) ==
    IF \E i \in 1..Len(Upper) : Upper[i] = c
    THEN Lowers[CHOOSE i \in 1..Len(Upper) : Upper[i] = c]
    ELSE c

\* str.lower()
Lower(t) == [i \in 1..Len(t) |-> LowerChar(t[i])]

\* os.path.splitext(path)[1]: from the last dot of the base name to the end,
\* empty when the base name has no dot or only leading dots.
splitext(path) ==
    LET seps == {i \in 1..Len(path) : path[i] = "/"}
        base == IF seps = {} THEN 1
                ELSE (CHOOSE i \in seps : \A j \in seps : j <= i) + 1
        dots == {i \in base..Len(path) : path[i] = "."}
        lastDot == CHOOSE i \in dots : \A j \in dots : j <= i
    IN  IF dots = {} THEN <<>>
        ELSE IF \A i \in base..lastDot : path[i] = "." THEN <<>>
        ELSE SubSeq(path, lastDot, Len(path))

\* " ".join(text.split())
clean_text(text) == Join(Split(text), <<" ">>)

(***************************************************************************)
(* Documents.  A Document is [page_content, metadata]; a metadata mapping  *)
(* is a record whose domain is its key set.                                *)
(***************************************************************************)
EmptyMeta == [key \in {} |-> ""]

Doc(content, metadata) == [page_content |-> content, metadata |-> metadata]

HasKey(metadata, key) == key \in DOMAIN metadata

(***************************************************************************)
(* The files the environment offers.  exists: os.path.exists; raw: what a  *)
(* read returns (text files) or the description the vision model gives     *)
(* (images); ok: the extractor's own external step succeeds (open/read,    *)
(* image decoding and description, ffmpeg audio extraction); probeOk:      *)
(* ffmpeg.probe succeeds; size: the pixel size of an image.                *)
(***************************************************************************)
File(path, exists, raw, ok, probeOk, size) ==
    [path |-> path, exists |-> exists, raw |-> raw, ok |-> ok,
     probeOk |-> probeOk, size |-> size]

PathA == <<"a", ".", "t", "x", "t">>
PathB == <<"b", ".", "p", "d", "f">>
PathG == <<"g", ".", "t", "x", "t">>
PathP == <<"p", ".", "p", "n", "g">>
PathV == <<"v", ".", "m", "p", "4">>
PathM == <<"m", ".", "M", "P", "3">>
PathX == <<"x", ".", "e", "x", "e">>

Files ==
    { File(PathA, TRUE, <<"x", " ", " ", "y", "\n">>, TRUE, TRUE, <<0, 0>>),
      File(PathB, TRUE, <<>>, FALSE, TRUE, <<0, 0>>),
      File(PathG, FALSE, <<>>, FALSE, FALSE, <<0, 0>>),
      File(PathP, TRUE, <<"x", "x">>, TRUE, TRUE, <<4096, 1024>>),
      File(PathV, TRUE, <<>>, FALSE, TRUE, <<0, 0>>),
      File(PathM, TRUE, <<>>, TRUE, FALSE, <<0, 0>>),
      File(PathX, TRUE, <<"x">>, TRUE, TRUE, <<0, 0>>) }

Paths == {f.path : f \in Files}

PathE == <<"e", ".", "t", "x", "t">>
PathW == <<"w", ".", "m", "d">>

\* Text files besides: an empty one and one of whitespace only.
TextFiles ==
    { File(PathE, TRUE, <<>>, TRUE, TRUE, <<0, 0>>),
      File(PathW, TRUE, <<" ", "\n", "\t", " ">>, TRUE, TRUE, <<0, 0>>) }

FileAt(path) == CHOOSE f \in Files \cup TextFiles : f.path = path

TextExts == { <<".", "t", "x", "t">>, <<".", "m", "d">>, <<".", "p", "d", "f">> }

ImageExts == { <<".", "j", "p", "g">>, <<".", "j", "p", "e", "g">>,
               <<".", "p", "n", "g">>, <<".", "b", "m", "p">>,
               <<".", "g", "i", "f">> }

VideoExts == { <<".", "m", "p", "4">>, <<".", "a", "v", "i">>,
               <<".", "m", "o", "v">>, <<".", "m", "k", "v">> }

AudioExts == { <<".", "m", "p", "3">>, <<".", "w", "a", "v">>,
               <<".", "m", "4", "a">>, <<".", "o", "g", "g">> }

(***************************************************************************)
(* Content extractors.  An Optional[Document] is a sequence of at most one *)
(* Document (None is the empty sequence).                                  *)
(***************************************************************************)
\* process_text_file without the test "if text:".
process_text_file_unguarded(path) ==
    LET f == FileAt(path) IN
    IF ~(f.exists /\ f.ok) THEN <<>>
    ELSE << Doc(clean_text(f.raw), [source |-> path, category |-> "text",
                                   modality |-> "text"]) >>

\* DocumentProcessor.process_text_file: the read may raise (caught); an
\* empty cleaned text gives no Document.
process_text_file(path) ==
    LET f == FileAt(path) IN
    IF ~(f.exists /\ f.ok) THEN <<>>
    ELSE LET text == clean_text(f.raw) IN
         IF text # <<>>
         THEN << Doc(text, [source |-> path, category |-> "text",
                            modality |-> "text"]) >>
         ELSE <<>>

MaxImageSide == 2048

Max2(a, b) == IF a >= b THEN a ELSE b

\* The size after the resize of an image whose longest side exceeds the
\* bound: int(side * (2048 / longest)).
ImageSize(size) ==
    LET longest == Max2(size[1], size[2]) IN
    IF longest > MaxImageSide
    THEN << (size[1] * MaxImageSide) \div longest,
            (size[2] * MaxImageSide) \div longest >>
    ELSE size

\* ImageHandler.process_image: any failure is caught and gives None.  The
\* metadata never holds an "embedding".
process_image(path) ==
    LET f == FileAt(path) IN
    IF ~(f.exists /\ f.ok) THEN <<>>
    ELSE << Doc(f.raw, [source |-> path, category |-> "Image",
                        modality |-> "image", size |-> ImageSize(f.size)]) >>

\* MediaProcessor.get_media_metadata: {} when the probe fails.
get_media_metadata(path) ==
    LET f == FileAt(path) IN
    IF f.exists /\ f.probeOk
    THEN [format |-> "fmt", duration |-> 1, size |-> 1, streams |-> <<>>]
    ELSE EmptyMeta

TempAudio == <<"t", ".", "w", "a", "v">>

\* MediaProcessor.extract_audio_from_video: the temporary file's name, or
\* None when ffmpeg fails.
extract_audio_from_video(path) ==
    LET f == FileAt(path) IN
    IF f.exists /\ f.ok THEN <<TempAudio>> ELSE <<>>

FileProcessed == <<" ", "f", "i", "l", "e", " ", "p", "r", "o", "c", "e", "s",
                   "s", "e", "d", ":", " ">>

VideoPrefix == <<"V", "i", "d", "e", "o">> \o FileProcessed

AudioPrefix == <<"A", "u", "d", "i", "o">> \o FileProcessed

\* {**base, **extra} with extra's keys last: extra wins on a shared key.
Merge(base, extra) == extra @@ base

\* MediaProcessor.process_media_file
process_media_file(path) ==
    LET ext == Lower(splitext(path))
        metadata == get_media_metadata(path)
    IN  IF ext \in VideoExts
        THEN LET audio_path == extract_audio_from_video(path) IN
             IF audio_path # <<>>
             THEN << Doc(VideoPrefix \o path,
                         Merge([source |-> path, modality |-> "video",
                                extracted_audio |-> audio_path[1]],
                               metadata)) >>
             ELSE <<>>
        ELSE IF ext \in AudioExts
        THEN << Doc(AudioPrefix \o path,
                    Merge([source |-> path, modality |-> "audio"],
                          metadata)) >>
        ELSE <<>>

\* The temporary WAV files a call of process_media_file leaves on disk, named
\* by the video they were made for.  extract_audio_from_video creates the
\* file before it runs ffmpeg; process_media_file unlinks it only when a
\* name came back.
temp_files_left(path) ==
    IF Lower(splitext(path)) \in VideoExts
    THEN IF extract_audio_from_video(path) # <<>> THEN {} ELSE {path}
    ELSE {}

(***************************************************************************)
(* Chunker (RecursiveCharacterTextSplitter with the constructor's          *)
(* arguments; keep_separator and strip_whitespace have their defaults,     *)
(* True).  With the separator kept at the head of the piece that follows   *)
(* it, the pieces of a text and the chunks merged from them are spans      *)
(* <<first, last>> of positions of the text.                               *)
(***************************************************************************)
chunk_size == 500

chunk_overlap == 100

separators ==
    << <<"\n", "\n">>, <<"\n">>, <<".">>, <<"!">>, <<"?">>, <<";">>, <<":">>,
       <<" ">>, <<>> >>

\* sep stands in t at position i, within lo..hi.
OccursAt(t, i, hi, sep) ==
    /\ i + Len(sep) - 1 <= hi
    /\ \A j \in 1..Len(sep) : t[i + j - 1] = sep[j]

\* The positions of lo..hi where re.split finds sep: its occurrences from
\* the left, none overlapping the one before.  (Of the separators only
\* "\n\n" can overlap itself: in a run of occurrences every second counts.)
Matches(t, lo, hi, sep) ==
    LET occ == {i \in lo..hi : OccursAt(t, i, hi, sep)}
        RunStart(i) ==
            CHOOSE j \in lo..i :
                /\ \A n \in j..i : n \in occ
                /\ (j - 1) \notin occ
    IN  IF Len(sep) = 1 THEN occ
        ELSE {i \in occ : (i - RunStart(i)) % Len(sep) = 0}

\* _split_text_with_regex: the first positions of the non-empty pieces of
\* lo..hi, each separator heading the piece after it; single characters
\* for the separator "".
Pieces(t, lo, hi, sep) ==
    LET all == [i \in 1..(hi - lo + 1) |-> lo + i - 1] IN
    IF sep = <<>> THEN all
    ELSE LET heads == Matches(t, lo, hi, sep) \cup {lo} IN
         SelectSeq(all, LAMBDA i : i \in heads)

\* The last positions of the pieces that start at S, within lo..hi.
PieceEnds(S, hi) ==
    [i \in 1..Len(S) |-> IF i = Len(S) THEN hi ELSE S[i + 1] - 1]

\* _join_docs: the span lo..hi stripped of the whitespace at its two ends,
\* and nothing (None) when only whitespace is there.
StripSpan(t, lo, hi) ==
    IF \A i \in lo..hi : IsSpace(t[i]) THEN <<>>
    ELSE << << CHOOSE i \in lo..hi :
                  ~IsSpace(t[i]) /\ \A j \in lo..(i - 1) : IsSpace(t[j]),
               CHOOSE i \in lo..hi :
                  ~IsSpace(t[i]) /\ \A j \in (i + 1)..hi : IsSpace(t[j]) >> >>

\* _merge_splits keeping chunk_size - chunk_overlap characters of
\* current_doc, where chunk_overlap are to be kept.
RECURSIVE MergeSplits_keeping(_, _, _, _, _)
MergeSplits_keeping(t, S, E, a, z) ==
    LET Fits(j) == E[j] - S[a] + 1 <= chunk_size
        b == CHOOSE j \in a..z : Fits(j) /\ (j = z \/ ~Fits(j + 1))
        doc == StripSpan(t, S[a], E[b])
        Kept(j) ==
            LET total == E[b] - S[j] + 1 IN
            /\ total <= chunk_size - chunk_overlap
            /\ total + (E[b + 1] - S[b + 1] + 1) <= chunk_size \/ total = 0
    IN  IF b = z THEN doc
        ELSE doc \o MergeSplits_keeping(t, S, E,
                                CHOOSE j \in (a + 1)..(b + 1) :
                                    Kept(j) /\ (j = a + 1 \/ ~Kept(j - 1)),
                                z)

\* _merge_splits over the pieces a..z (all shorter than chunk_size), a
\* being the first piece of current_doc: pieces are taken while the total
\* stays within chunk_size; then the chunk is emitted and pieces are
\* dropped from the front of current_doc until what is left is no longer
\* than chunk_overlap and leaves room for the next piece.  (What is left
\* only shrinks, so the first piece kept is the one whose predecessor is
\* not.)
RECURSIVE MergeSplits(_, _, _, _, _)
MergeSplits(t, S, E, a, z) ==
    LET Fits(j) == E[j] - S[a] + 1 <= chunk_size
        b == CHOOSE j \in a..z : Fits(j) /\ (j = z \/ ~Fits(j + 1))
        doc == StripSpan(t, S[a], E[b])
        Kept(j) ==
            LET total == E[b] - S[j] + 1 IN
            /\ total <= chunk_overlap
            /\ total + (E[b + 1] - S[b + 1] + 1) <= chunk_size \/ total = 0
    IN  IF b = z THEN doc
        ELSE doc \o MergeSplits(t, S, E,
                                CHOOSE j \in (a + 1)..(b + 1) :
                                    Kept(j) /\ (j = a + 1 \/ ~Kept(j - 1)),
                                z)

\* RecursiveCharacterTextSplitter._split_text on the span lo..hi of t: the
\* first separator of seps that occurs (or "") cuts the span; runs of
\* pieces shorter than chunk_size are merged, a piece that is not shorter
\* is split with the separators that remain.
RECURSIVE SplitSpan(_, _, _, _)
RECURSIVE SplitPieces(_, _, _, _, _)
SplitSpan(t, lo, hi, seps) ==
    LET found == {n \in 1..Len(seps) :
                     seps[n] = <<>> \/ \E i \in lo..hi : OccursAt(t, i, hi, seps[n])}
        k == CHOOSE n \in found : \A m \in found : n <= m
        S == CHOOSE starts \in {Pieces(t, lo, hi, seps[k])} : TRUE
        E == CHOOSE ends \in {PieceEnds(S, hi)} : TRUE
    IN  SplitPieces(t, S, E, 1,
                    IF seps[k] = <<>> THEN <<>>
                    ELSE SubSeq(seps, k + 1, Len(seps)))

SplitPieces(t, S, E, i, new_separators) ==
    LET Good(j) == E[j] - S[j] + 1 < chunk_size IN
    IF i > Len(S) THEN <<>>
    ELSE IF ~Good(i)
    THEN (IF new_separators = <<>> THEN << <<S[i], E[i]>> >>
          ELSE SplitSpan(t, S[i], E[i], new_separators))
         \o SplitPieces(t, S, E, i + 1, new_separators)
    ELSE LET z == CHOOSE j \in i..Len(S) :
                      /\ j = Len(S) \/ ~Good(j + 1)
                      /\ \A n \in i..j : Good(n)
         IN  MergeSplits(t, S, E, i, z)
             \o SplitPieces(t, S, E, z + 1, new_separators)

\* The spans of the chunks of text, in the order split_text returns them.
split_spans(text) == SplitSpan(text, 1, Len(text), separators)

\* RecursiveCharacterTextSplitter.split_text
split_text(text) ==
    LET spans == split_spans(text) IN
    [i \in 1..Len(spans) |-> SubSeq(text, spans[i][1], spans[i][2])]

RECURSIVE Flatten(_)
Flatten(seqs) ==
    IF seqs = <<>> THEN <<>> ELSE Head(seqs) \o Flatten(Tail(seqs))

\* The contents of the Documents the extractors make of the files of Files.
ExtractedTexts ==
    LET made == UNION { {process_text_file(f.path), process_image(f.path),
                         process_media_file(f.path)} : f \in Files }
    IN  {docs[1].page_content : docs \in {d \in made : d # <<>>}}

\* split_text is a function of the text alone: the chunks of the contents
\* above, worked out once.
SplitTexts == [text \in ExtractedTexts |-> split_text(text)]

\* The chunks of one Document: each carries a copy of its metadata.
ChunksOf(doc) ==
    LET texts == IF doc.page_content \in ExtractedTexts
                 THEN SplitTexts[doc.page_content]
                 ELSE split_text(doc.page_content) IN
    [i \in 1..Len(texts) |-> Doc(texts[i], doc.metadata)]

\* DocumentProcessor.split_documents
split_documents(documents) ==
    Flatten([i \in 1..Len(documents) |-> ChunksOf(documents[i])])

(***************************************************************************)
(* Embedder.  The embedding service is a fixed function of the text: the   *)
(* i-th component counts the occurrences of the i-th character of          *)
(* Alphabet.  A call of the service may fail.                              *)
(***************************************************************************)
Alphabet == <<"x", "y", " ", ".", "a", "t">>

\* OpenAIEmbeddings.embed_query, when the service answers
Embed(text) ==
    [i \in 1..EmbedDim |->
        IF i <= Len(Alphabet)
        THEN Cardinality({j \in 1..Len(text) : text[j] = Alphabet[i]})
        ELSE 0]

EmptyDocument == <<"e", "m", "p", "t", "y", " ", "d", "o", "c", "u", "m", "e",
                   "n", "t">>

\* VectorStore.get_embedding; serviceOk: the embedding service answers this
\* call.  calls counts the calls made of the service.
get_embedding(doc, serviceOk) ==
    LET md == doc.metadata IN
    IF HasKey(md, "modality") /\ md.modality = "image"
    THEN IF ~HasKey(md, "embedding")
         THEN [ok |-> FALSE, vector |-> <<>>, calls |-> 0]
         ELSE [ok |-> TRUE, vector |-> md.embedding, calls |-> 0]
    ELSE LET text == IF Strip(doc.page_content) = <<>>
                     THEN IF HasKey(md, "source") THEN md.source
                          ELSE EmptyDocument
                     ELSE doc.page_content
         IN  IF serviceOk
             THEN [ok |-> TRUE, vector |-> Embed(text), calls |-> 1]
             ELSE [ok |-> FALSE, vector |-> <<>>, calls |-> 1]

\* The loop "for doc in documents: embedding = self.get_embedding(doc)":
\* it stops at the first document whose embedding raises.  failAt is the
\* position of the document for which the service is down (0: none);
\* service tells whether the loop stopped on a failure of the service.
RECURSIVE EmbedLoop(_, _, _, _, _)
EmbedLoop(documents, failAt, i, vectors, calls) ==
    IF i > Len(documents)
    THEN [ok |-> TRUE, vectors |-> vectors, calls |-> calls,
          service |-> FALSE]
    ELSE LET e == get_embedding(documents[i], i # failAt) IN
         IF ~e.ok
         THEN [ok |-> FALSE, vectors |-> vectors, calls |-> calls + e.calls,
               service |-> e.calls > 0]
         ELSE EmbedLoop(documents, failAt, i + 1, Append(vectors, e.vector),
                        calls + e.calls)

embed_documents(documents, failAt) == EmbedLoop(documents, failAt, 1, <<>>, 0)

(***************************************************************************)
(* Vector index.  The FAISS object held in self.store, and the index       *)
(* directory at index_path, are [present, dim, entries]: present is FALSE  *)
(* for None / no directory, entries are [text, vector, metadata].          *)
(***************************************************************************)
NoIndex == [present |-> FALSE, dim |-> 0, entries |-> <<>>]

Index(dim, entries) ==
    [present |-> TRUE, dim |-> dim, entries |-> entries]

\* What FAISS.from_embeddings / add_embeddings store for the given
\* (text, vector) pairs: no metadatas are handed over, so each stored
\* Document gets the empty mapping.
NewEntries(documents, vectors) ==
    [i \in 1..Len(documents) |->
        [text |-> documents[i].page_content, vector |-> vectors[i],
         metadata |-> EmptyMeta]]

SameDim(vectors) == \A i \in 1..Len(vectors) : Len(vectors[i]) = Len(vectors[1])

\* save_index writing the index only when none is saved yet.
save_index_once(st, dk, saveOk) ==
    IF ~st.present \/ dk.present THEN [raised |-> FALSE, disk |-> dk]
    ELSE IF saveOk THEN [raised |-> FALSE, disk |-> st]
    ELSE [raised |-> TRUE, disk |-> dk]

\* VectorStore.save_index; saveOk: save_local succeeds.  Its failure is
\* re-raised.
save_index(st, dk, saveOk) ==
    IF ~st.present THEN [raised |-> FALSE, disk |-> dk]
    ELSE IF saveOk THEN [raised |-> FALSE, disk |-> st]
    ELSE [raised |-> TRUE, disk |-> dk]

\* VectorStore.load_index; loadOk: FAISS.load_local succeeds.  The store
\* after the call and the returned flag.
load_index(st, dk, loadOk) ==
    IF dk.present
    THEN IF loadOk THEN [store |-> dk, result |-> TRUE]
         ELSE [store |-> st, result |-> FALSE]
    ELSE [store |-> st, result |-> FALSE]

\* VectorStore.__init__
new_vector_store(dk, loadOk) == load_index(NoIndex, dk, loadOk).store

\* What a call of initialize_store or add_documents comes to.  fault names
\* the failure of the environment the call met: "none", "embedding" (the
\* embedding service) or "save" (save_local).
Outcome(raised, st, dk, calls, fault) ==
    [raised |-> raised, store |-> st, disk |-> dk, calls |-> calls,
     fault |-> fault]

\* The outcome of a call whose embedding loop stopped.
EmbeddingRaised(st, dk, e) ==
    Outcome(TRUE, st, dk, e.calls, IF e.service THEN "embedding" ELSE "none")

\* The outcome of a call that set self.store to new and saved it.
Saved(new, dk, e, saveOk) ==
    LET sv == save_index(new, dk, saveOk) IN
    Outcome(sv.raised, new, sv.disk, e.calls,
            IF sv.raised THEN "save" ELSE "none")

\* initialize_store raising on an empty list instead of returning.
initialize_store_strict(st, dk, documents, env) ==
    IF documents = <<>> THEN Outcome(TRUE, st, dk, 0, "none")
    ELSE LET e == embed_documents(documents, env.failAt) IN
         IF ~e.ok THEN EmbeddingRaised(st, dk, e)
         ELSE IF ~SameDim(e.vectors) THEN Outcome(TRUE, st, dk, e.calls, "none")
         ELSE Saved(Index(Len(e.vectors[1]), NewEntries(documents, e.vectors)),
                    dk, e, env.saveOk)

\* VectorStore.initialize_store.  env: [failAt, saveOk].
initialize_store(st, dk, documents, env) ==
    IF documents = <<>> THEN Outcome(FALSE, st, dk, 0, "none")
    ELSE LET e == embed_documents(documents, env.failAt) IN
         IF ~e.ok THEN EmbeddingRaised(st, dk, e)
         ELSE IF ~SameDim(e.vectors) THEN Outcome(TRUE, st, dk, e.calls, "none")
         ELSE Saved(Index(Len(e.vectors[1]), NewEntries(documents, e.vectors)),
                    dk, e, env.saveOk)

\* add_documents embedding and adding one document at a time: the
\* documents ahead of one whose embedding fails are already in the store.
add_documents_eager(st, dk, documents, env) ==
    IF documents = <<>> THEN Outcome(FALSE, st, dk, 0, "none")
    ELSE IF ~st.present THEN initialize_store(st, dk, documents, env)
    ELSE LET e == embed_documents(documents, env.failAt)
             done == SubSeq(documents, 1, Len(e.vectors))
             new == [st EXCEPT !.entries = @ \o NewEntries(done, e.vectors)]
         IN  IF ~e.ok THEN EmbeddingRaised(new, dk, e)
             ELSE Saved(new, dk, e, env.saveOk)

\* add_documents handing the vectors to the index without the test of
\* their dimension.
add_documents_unchecked(st, dk, documents, env) ==
    IF documents = <<>> THEN Outcome(FALSE, st, dk, 0, "none")
    ELSE IF ~st.present THEN initialize_store(st, dk, documents, env)
    ELSE LET e == embed_documents(documents, env.failAt) IN
         IF ~e.ok THEN EmbeddingRaised(st, dk, e)
         ELSE Saved([st EXCEPT !.entries =
                         @ \o NewEntries(documents, e.vectors)],
                    dk, e, env.saveOk)

\* add_documents without the save_index() that follows add_embeddings.
add_documents_unsaved(st, dk, documents, env) ==
    IF documents = <<>> THEN Outcome(FALSE, st, dk, 0, "none")
    ELSE IF ~st.present THEN initialize_store(st, dk, documents, env)
    ELSE LET e == embed_documents(documents, env.failAt) IN
         IF ~e.ok THEN EmbeddingRaised(st, dk, e)
         ELSE IF \E i \in 1..Len(e.vectors) : Len(e.vectors[i]) # st.dim
         THEN Outcome(TRUE, st, dk, e.calls, "none")
         ELSE Outcome(FALSE,
                      [st EXCEPT !.entries =
                           @ \o NewEntries(documents, e.vectors)],
                      dk, e.calls, "none")

\* VectorStore.add_documents
add_documents(st, dk, documents, env) ==
    IF documents = <<>> THEN Outcome(FALSE, st, dk, 0, "none")
    ELSE IF ~st.present THEN initialize_store(st, dk, documents, env)
    ELSE LET e == embed_documents(documents, env.failAt) IN
         IF ~e.ok THEN EmbeddingRaised(st, dk, e)
         ELSE IF \E i \in 1..Len(e.vectors) : Len(e.vectors[i]) # st.dim
         THEN Outcome(TRUE, st, dk, e.calls, "none")
         ELSE Saved([st EXCEPT !.entries =
                         @ \o NewEntries(documents, e.vectors)],
                    dk, e, env.saveOk)

RECURSIVE SumSq(_, _, _)
SumSq(u, v, i) ==
    IF i > Len(u) THEN 0
    ELSE (u[i] - v[i]) * (u[i] - v[i]) + SumSq(u, v, i + 1)

\* The score of IndexFlatL2: the squared L2 distance.
Distance(u, v) == SumSq(u, v, 1)

\* The positions of the k entries nearest to qv, nearest first, the
\* earlier entry first among equals.
RECURSIVE Nearest(_, _, _, _)
Nearest(entries, qv, k, taken) ==
    LET left == (1..Len(entries)) \ taken IN
    IF k = 0 \/ left = {} THEN <<>>
    ELSE LET best == CHOOSE i \in left : \A j \in left :
                        \/ Distance(entries[i].vector, qv)
                             < Distance(entries[j].vector, qv)
                        \/ /\ Distance(entries[i].vector, qv)
                                = Distance(entries[j].vector, qv)
                           /\ i <= j
         IN  <<best>> \o Nearest(entries, qv, k - 1, taken \cup {best})

\* FAISS.similarity_search_with_score, given the query's vector: (Document,
\* score) pairs.
search_by_vector(st, qv, k) ==
    LET order == Nearest(st.entries, qv, k, {}) IN
    [n \in 1..Len(order) |->
        << Doc(st.entries[order[n]].text, st.entries[order[n]].metadata),
           Distance(st.entries[order[n]].vector, qv) >>]

\* What a call of similarity_search comes to: the list returned, the calls
\* made of the embedding service, whether the except branch was taken, and
\* self.store after the call.
Found(results, calls, failed, st) ==
    [results |-> results, calls |-> calls, failed |-> failed, store |-> st]

\* similarity_search without the test for a store that is None: the query
\* is embedded before the missing store is hit.
similarity_search_unchecked(st, query, k, failAt) ==
    IF ~st.present THEN Found(<<>>, 1, TRUE, st)
    ELSE IF failAt = 1 THEN Found(<<>>, 1, TRUE, st)
    ELSE IF failAt = 2 THEN Found(<<>>, 2, TRUE, st)
    ELSE IF st.dim # EmbedDim THEN Found(<<>>, 2, TRUE, st)
    ELSE Found(search_by_vector(st, Embed(query), k), 2, FALSE, st)

\* similarity_search dropping the index when the search fails.
similarity_search_dropping(st, query, k, failAt) ==
    IF ~st.present THEN Found(<<>>, 0, FALSE, st)
    ELSE IF failAt = 1 THEN Found(<<>>, 1, TRUE, NoIndex)
    ELSE IF failAt = 2 THEN Found(<<>>, 2, TRUE, NoIndex)
    ELSE IF st.dim # EmbedDim THEN Found(<<>>, 2, TRUE, NoIndex)
    ELSE Found(search_by_vector(st, Embed(query), k), 2, FALSE, st)

\* VectorStore.similarity_search.  The query is embedded twice (once by the
\* method, once inside FAISS); failAt is the call that fails (0: none).  Any
\* failure, a dimension mismatch included, gives [].
similarity_search(st, query, k, failAt) ==
    IF ~st.present THEN Found(<<>>, 0, FALSE, st)
    ELSE IF failAt = 1 THEN Found(<<>>, 1, TRUE, st)
    ELSE IF failAt = 2 THEN Found(<<>>, 2, TRUE, st)
    ELSE IF st.dim # EmbedDim THEN Found(<<>>, 2, TRUE, st)
    ELSE Found(search_by_vector(st, Embed(query), k), 2, FALSE, st)

(***************************************************************************)
(* Answer synthesizer (QueryEngine).  Answers are strings; the chat model  *)
(* is external: llm is [ok, answer], whether the call succeeds and what    *)
(* it returns.                                                             *)
(***************************************************************************)
InsufficientAnswer ==
    "I don't have enough relevant information to answer that question. Please try asking something else or provide more documents."

GenerationError == "An error occurred while generating the response: llm failure"

QueryError == "An error occurred while processing your query."

Unknown == <<"U", "n", "k", "n", "o", "w", "n">>

\* One formatted line of the context: "[n] From source: content (Score: s)".
ContextLine(n, result) ==
    [n |-> n,
     source |-> IF HasKey(result[1].metadata, "source")
                THEN result[1].metadata.source ELSE Unknown,
     content |-> Strip(result[1].page_content),
     score |-> result[2]]

\* format_context with a heading put before the lines, so that the context
\* is never the empty string.
format_context_heading(docs) ==
    << [n |-> 0, source |-> Unknown, content |-> <<"C">>, score |-> 0] >>
    \o SelectSeq([n \in 1..Len(docs) |-> ContextLine(n, docs[n])],
                 LAMBDA line : line.content # <<>>)

\* QueryEngine.format_context: the lines joined into the context; the
\* context is the empty string exactly when there is no line.
format_context(docs) ==
    SelectSeq([n \in 1..Len(docs) |-> ContextLine(n, docs[n])],
              LAMBDA line : line.content # <<>>)

\* The "sources" list built from (Document, score) pairs.
Sources(docs) ==
    [n \in 1..Len(docs) |->
        [content |-> docs[n][1].page_content, score |-> docs[n][2],
         metadata |-> docs[n][1].metadata]]

\* generate_response without its try/except: a failure of the chat model
\* escapes.
generate_response_unguarded(query, docs, llm) ==
    LET context == format_context(docs) IN
    IF context = <<>>
    THEN [raised |-> FALSE, llmCalls |-> 0,
          response |-> [answer |-> InsufficientAnswer, sources |-> <<>>]]
    ELSE IF llm.ok
    THEN [raised |-> FALSE, llmCalls |-> 1,
          response |-> [answer |-> llm.answer, sources |-> Sources(docs)]]
    ELSE [raised |-> TRUE, llmCalls |-> 1,
          response |-> [answer |-> GenerationError, sources |-> <<>>]]

\* QueryEngine.generate_response
generate_response(query, docs, llm) ==
    LET context == format_context(docs) IN
    IF context = <<>>
    THEN [raised |-> FALSE, llmCalls |-> 0,
          response |-> [answer |-> InsufficientAnswer, sources |-> <<>>]]
    ELSE IF llm.ok
    THEN [raised |-> FALSE, llmCalls |-> 1,
          response |-> [answer |-> llm.answer, sources |-> Sources(docs)]]
    ELSE [raised |-> FALSE, llmCalls |-> 1,
          response |-> [answer |-> GenerationError, sources |-> <<>>]]

(***************************************************************************)
(* Orchestrator (MultimodalRAG).                                           *)
(***************************************************************************)
\* The body of the loop of process_documents for one path: the Documents it
\* adds to all_docs.
extract_file(path) ==
    IF ~FileAt(path).exists THEN <<>>
    ELSE LET ext == Lower(splitext(path)) IN
         IF ext \in TextExts THEN process_text_file(path)
         ELSE IF ext \in ImageExts THEN process_image(path)
         ELSE IF ext \in VideoExts \cup AudioExts THEN process_media_file(path)
         ELSE <<>>

\* The loop leaving at the first missing file (break for continue).
RECURSIVE extract_all_break(_)
extract_all_break(file_paths) ==
    IF file_paths = <<>> THEN <<>>
    ELSE IF ~FileAt(Head(file_paths)).exists THEN <<>>
    ELSE extract_file(Head(file_paths)) \o extract_all_break(Tail(file_paths))

\* The loop over file_paths: all_docs.
RECURSIVE extract_all(_)
extract_all(file_paths) ==
    IF file_paths = <<>> THEN <<>>
    ELSE extract_file(Head(file_paths)) \o extract_all(Tail(file_paths))

\* The temporary WAV files the extraction loop leaves on disk: those of the
\* files it hands to process_media_file.
temps_left(file_paths) ==
    UNION { temp_files_left(file_paths[i]) :
              i \in {j \in 1..Len(file_paths) : FileAt(file_paths[j]).exists} }

\* MultimodalRAG.process_documents.  called: add_documents was called;
\* passed: the chunks it was given; fault: as for add_documents; temps: the
\* temporary WAV files left on disk.
process_documents(st, dk, file_paths, env) ==
    LET all_docs == extract_all(file_paths) IN
    IF file_paths = <<>> \/ all_docs = <<>>
    THEN [raised |-> FALSE, store |-> st, disk |-> dk, calls |-> 0,
          fault |-> "none", called |-> FALSE, passed |-> <<>>,
          temps |-> temps_left(file_paths)]
    ELSE LET split_docs == split_documents(all_docs)
             r == add_documents(st, dk, split_docs, env)
         IN  [raised |-> r.raised, store |-> r.store, disk |-> r.disk,
              calls |-> r.calls, fault |-> r.fault, called |-> TRUE,
              passed |-> split_docs, temps |-> temps_left(file_paths)]

\* What the "Process All Content" handler does once process_documents is
\* over: after a normal return it unlinks every file of the list, a failing
\* unlink being passed over, and clears the session's video_path and
\* audio_path; after an exception it only shows the error.
clean_up(files_to_process, raised) ==
    IF raised
    THEN [unlinked |-> {}, cleared |-> FALSE, shown |-> "error"]
    ELSE [unlinked |-> {files_to_process[i] : i \in 1..Len(files_to_process)},
          cleared |-> TRUE, shown |-> "success"]

ParagraphBreak == <<"\n", "\n">>

\* MultimodalRAG.query.  env: [failAt, llm].  The chain is invoked whatever
\* the search returned; prompt is what the chat model is given, retrieved
\* what the search returned, searchFailed whether the search hit a failure,
\* store the vector store's self.store after the call.
query(st, query_text, k, env) ==
    LET found == similarity_search(st, query_text, k, env.failAt)
        docs == found.results
        context == Join([n \in 1..Len(docs) |-> docs[n][1].page_content],
                        ParagraphBreak)
    IN  IF env.llm.ok
        THEN [raised |-> FALSE, llmCalls |-> 1, calls |-> found.calls,
              store |-> found.store,
              searchFailed |-> found.failed, retrieved |-> docs,
              prompt |-> [question |-> query_text, context |-> context],
              response |-> [answer |-> env.llm.answer,
                            sources |-> Sources(docs)]]
        ELSE [raised |-> FALSE, llmCalls |-> 1, calls |-> found.calls,
              store |-> found.store,
              searchFailed |-> found.failed, retrieved |-> docs,
              prompt |-> [question |-> query_text, context |-> context],
              response |-> [answer |-> QueryError, sources |-> <<>>,
                            error |-> "llm failure"]]

(***************************************************************************)
(* The inputs the callers draw from.                                       *)
(***************************************************************************)
RECURSIVE SeqsUpTo(_, _)
SeqsUpTo(set, n) ==
    IF n = 0 THEN {<<>>}
    ELSE LET shorter == SeqsUpTo(set, n - 1) IN
         shorter \cup {Append(q, x) : q \in shorter, x \in set}

\* File lists name each file once (the front end hands over one temporary
\* file of its own per upload).
NoRepeat(q) == \A i, j \in 1..Len(q) : q[i] = q[j] => i = j

Batches == {q \in SeqsUpTo(Paths, MaxBatch) : NoRepeat(q)}

TextChunk == Doc(<<"x", " ", "y">>,
                 [source |-> PathA, category |-> "text", modality |-> "text"])

BlankResult == Doc(<<" ">>, EmptyMeta)

ImageChunk == Doc(<<"x", "x">>,
                  [source |-> PathP, category |-> "Image",
                   modality |-> "image", size |-> <<2048, 512>>])

EmbeddedImageChunk ==
    Doc(<<"x", "x">>,
        [source |-> PathP, category |-> "Image", modality |-> "image",
         size |-> <<2048, 512>>, embedding |-> [i \in 1..EmbedDim |-> 1]])

\* An image chunk whose vector comes from another embedder, of another
\* dimension.
WideImageChunk ==
    Doc(<<"x", "x">>,
        [source |-> PathP, category |-> "Image", modality |-> "image",
         size |-> <<2048, 512>>, embedding |-> [i \in 1..(EmbedDim + 1) |-> 1]])

Documents == {TextChunk, ImageChunk, EmbeddedImageChunk, WideImageChunk}

DocumentLists == SeqsUpTo(Documents, MaxBatch)

Questions == { <<"x">>, <<"y", " ", "y">> }

ChatModels == { [ok |-> TRUE, answer |-> "The sky is blue."],
                [ok |-> TRUE, answer |-> "I don't know."],
                [ok |-> FALSE, answer |-> ""] }

\* The paths given to process_text_file.
TextPaths == {f.path : f \in TextFiles} \cup {PathA, PathB, PathG}

\* n copies of the character c.
Run(c, n) == [i \in 1..n |-> c]

\* n copies of the text u, one after the other.
Times(u, n) == [i \in 1..(n * Len(u)) |-> u[((i - 1) % Len(u)) + 1]]

WordLengths == {0, 1, 49, 120, 499, 500}

WordEnds == { <<>>, <<" ">>, <<".">>, <<"\n", "\n">>, <<".", " ", "\n">> }

\* The contents of the Records given to split_documents: a word of one of
\* the lengths with one of the endings, repeated, after nothing or after a
\* word of chunk_size characters and a space.
Contents ==
    UNION { { h \o Times(Run("x", w) \o e, n) :
                h \in { <<>>, Run("y", chunk_size) \o <<" ">> },
                n \in {m \in 1..MaxRepeat : m * (w + Len(e)) \in 1..MaxText} } :
            w \in WordLengths, e \in WordEnds }
    \cup { <<>> }

Records ==
    { Doc(c, [source |-> PathA, category |-> "text", modality |-> "text"]) :
        c \in Contents }

\* A call stops at its first fault, so one fault a call is all there is to
\* see: none, the embedding service down for the i-th document, or the save.
IngestEnvs(n) ==
    {[failAt |-> i, saveOk |-> TRUE] : i \in 0..n}
    \cup {[failAt |-> 0, saveOk |-> FALSE]}

\* The (Document, score) lists handed to generate_response: what a search
\* of the index returns, no result, and results with blank content.
RetrievedLists(st, question) ==
    { search_by_vector(st, Embed(question), k) : k \in 1..MaxK }
    \cup { <<>>, << <<BlankResult, 0>> >>,
           << <<TextChunk, 1>>, <<BlankResult, 2>> >> }

(***************************************************************************)
(* State machine.  last holds the call that has just finished, with its    *)
(* arguments, its outcome and the index as it was before the call, until   *)
(* the caller has dealt with the result (Return).                          *)
(***************************************************************************)
Idle == [op |-> "idle"]

Before == [store |-> store, disk |-> disk]

Init ==
    /\ disk = NoIndex
    /\ store = new_vector_store(NoIndex, TRUE)
    /\ last = Idle

ProcessDocuments ==
    /\ last = Idle
    /\ \E file_paths \in Batches :
       \E env \in IngestEnvs(Len(file_paths)) :
       \E r \in {process_documents(store, disk, file_paths, env)} :
          /\ Len(r.store.entries) <= MaxEntries
          /\ store' = r.store
          /\ disk' = r.disk
          /\ last' = [op |-> "process_documents", file_paths |-> file_paths,
                      fault |-> r.fault, raised |-> r.raised,
                      called |-> r.called, passed |-> r.passed,
                      calls |-> r.calls, temps |-> r.temps,
                      cleanup |-> clean_up(file_paths, r.raised),
                      before |-> Before]

InitializeStore ==
    /\ last = Idle
    /\ \E documents \in DocumentLists :
       \E env \in IngestEnvs(Len(documents)) :
       \E r \in {initialize_store(store, disk, documents, env)} :
          /\ Len(r.store.entries) <= MaxEntries
          /\ store' = r.store
          /\ disk' = r.disk
          /\ last' = [op |-> "initialize_store", documents |-> documents,
                      fault |-> r.fault, raised |-> r.raised,
                      calls |-> r.calls,
                      before |-> Before]

AddDocuments ==
    /\ last = Idle
    /\ \E documents \in DocumentLists :
       \E env \in IngestEnvs(Len(documents)) :
       \E r \in {add_documents(store, disk, documents, env)} :
          /\ Len(r.store.entries) <= MaxEntries
          /\ store' = r.store
          /\ disk' = r.disk
          /\ last' = [op |-> "add_documents", documents |-> documents,
                      fault |-> r.fault, raised |-> r.raised,
                      calls |-> r.calls,
                      before |-> Before]

SimilaritySearch ==
    /\ last = Idle
    /\ \E question \in Questions, k \in 1..MaxK, failAt \in 0..2 :
       \E r \in {similarity_search(store, question, k, failAt)} :
          /\ store' = r.store
          /\ last' = [op |-> "similarity_search", query |-> question,
                      k |-> k, failAt |-> failAt, raised |-> FALSE,
                      results |-> r.results, calls |-> r.calls,
                      failed |-> r.failed, before |-> Before]
    /\ UNCHANGED disk

Query ==
    /\ last = Idle
    /\ \E question \in Questions, k \in 1..MaxK, failAt \in 0..2,
          llm \in ChatModels :
       \E r \in {query(store, question, k, [failAt |-> failAt, llm |-> llm])} :
          /\ store' = r.store
          /\ last' = [op |-> "query", query |-> question, k |-> k,
                      failAt |-> failAt, llm |-> llm, raised |-> r.raised,
                      llmCalls |-> r.llmCalls, calls |-> r.calls,
                      searchFailed |-> r.searchFailed,
                      retrieved |-> r.retrieved, prompt |-> r.prompt,
                      response |-> r.response, before |-> Before]
    /\ UNCHANGED disk

GenerateResponse ==
    /\ last = Idle
    /\ \E question \in Questions, llm \in ChatModels :
       \E docs \in RetrievedLists(store, question) :
       \E r \in {generate_response(question, docs, llm)} :
          last' = [op |-> "generate_response", query |-> question,
                   docs |-> docs, llm |-> llm, raised |-> r.raised,
                   llmCalls |-> r.llmCalls, response |-> r.response,
                   before |-> Before]
    /\ UNCHANGED <<store, disk>>

SaveIndex ==
    /\ last = Idle
    /\ \E saveOk \in BOOLEAN :
       \E r \in {save_index(store, disk, saveOk)} :
          /\ disk' = r.disk
          /\ last' = [op |-> "save_index", raised |-> r.raised,
                      before |-> Before]
    /\ UNCHANGED store

LoadIndex ==
    /\ last = Idle
    /\ \E loadOk \in BOOLEAN :
       \E r \in {load_index(store, disk, loadOk)} :
          /\ store' = r.store
          /\ last' = [op |-> "load_index", raised |-> FALSE,
                      result |-> r.result, before |-> Before]
    /\ UNCHANGED disk

\* A new process constructs MultimodalRAG, and with it a VectorStore, on the
\* same index_path.
Construct ==
    /\ last = Idle
    /\ \E loadOk \in BOOLEAN :
          /\ store' = new_vector_store(disk, loadOk)
          /\ last' = [op |-> "construct", raised |-> FALSE, before |-> Before]
    /\ UNCHANGED disk

\* The caller has shown the result (or the error) of the call.
Return ==
    /\ last # Idle
    /\ last' = Idle
    /\ UNCHANGED <<store, disk>>

ProcessTextFile ==
    /\ last = Idle
    /\ \E path \in TextPaths :
          last' = [op |-> "process_text_file", path |-> path,
                   raised |-> FALSE, result |-> process_text_file(path),
                   before |-> Before]
    /\ UNCHANGED <<store, disk>>

\* split_documents on one Record; spans are the places of the chunks in the
\* Record's content.
SplitDocuments ==
    /\ last = Idle
    /\ \E doc \in Records :
          last' = [op |-> "split_documents", documents |-> <<doc>>,
                   raised |-> FALSE, chunks |-> split_documents(<<doc>>),
                   spans |-> split_spans(doc.page_content),
                   before |-> Before]
    /\ UNCHANGED <<store, disk>>

\* The orchestrator and the synthesizer, as a front end drives them.
Next ==
    \/ ProcessDocuments
    \/ Query
    \/ GenerateResponse
    \/ Construct
    \/ Return

Spec == Init /\ [][Next]_vars

\* The vector index driven directly through the methods of VectorStore.
NextStore ==
    \/ InitializeStore
    \/ AddDocuments
    \/ SimilaritySearch
    \/ SaveIndex
    \/ LoadIndex
    \/ Construct
    \/ Return

SpecStore == Init /\ [][NextStore]_vars

\* The text extractor and the chunker on their own.
NextText ==
    \/ ProcessTextFile
    \/ SplitDocuments
    \/ Return

SpecText == Init /\ [][NextText]_vars

(***************************************************************************)
(* Properties of the ingest flow (process_documents), under Spec.          *)
(***************************************************************************)
Supported == TextExts \cup ImageExts \cup VideoExts \cup AudioExts

Missing(path) == ~FileAt(path).exists

Unsupported(path) == Lower(splitext(path)) \notin Supported

\* The extractor's own step fails: the read of a text file, the decoding or
\* description of an image, the audio extraction of a video.
ExtractorFails(path) ==
    /\ ~FileAt(path).ok
    /\ Lower(splitext(path)) \in TextExts \cup ImageExts \cup VideoExts

BadFile(path) == Missing(path) \/ Unsupported(path) \/ ExtractorFails(path)

ChunkSources(chunks) == {chunks[i].metadata.source : i \in 1..Len(chunks)}

GoodFiles(file_paths) == SelectSeq(file_paths, LAMBDA path : ~BadFile(path))

\* The chunks of the Records of the files of a list that are not bad, in
\* the order of the list.
GoodChunks(file_paths) ==
    LET good == GoodFiles(file_paths) IN
    split_documents(Flatten([i \in 1..Len(good) |-> extract_file(good[i])]))

\* C1: in process_documents a missing file, a file of unsupported type and
\* a file whose extractor fails contribute no Record, no exception escapes
\* before the chunks are handed to the Vector Index, and the Records of all
\* the other files of the batch are chunked and passed to the Vector Index.
C1_ExtractionIsolated ==
    last.op = "process_documents" =>
        /\ \A i \in 1..Len(last.file_paths) :
              BadFile(last.file_paths[i])
                  => last.file_paths[i] \notin ChunkSources(last.passed)
        /\ last.raised => last.called
        /\ last.passed = GoodChunks(last.file_paths)
        /\ GoodChunks(last.file_paths) # <<>> => last.called

\* A batch with a bad file ahead of a good one, whose chunk reached the
\* index.
C1_Witness ==
    /\ last.op = "process_documents"
    /\ \E i, j \in 1..Len(last.file_paths) :
          /\ i < j
          /\ BadFile(last.file_paths[i])
          /\ ~BadFile(last.file_paths[j])
          /\ last.file_paths[j] \in ChunkSources(last.passed)
    /\ ~last.raised
    /\ Len(store.entries) > Len(last.before.store.entries)

IsImageChunk(chunk) ==
    HasKey(chunk.metadata, "modality") /\ chunk.metadata.modality = "image"

EntryTexts(index) == {index.entries[i].text : i \in 1..Len(index.entries)}

\* C2 (as claimed): when one file of a batch yields chunks that cannot be
\* embedded (an image Record without a vector), the chunks of the other
\* files of the batch are in the Vector Index when process_documents ends.
C2_StageIsolation ==
    (/\ last.op = "process_documents"
     /\ last.fault = "none"
     /\ \E i \in 1..Len(last.passed) : IsImageChunk(last.passed[i]))
    => \A i \in 1..Len(last.passed) :
          ~IsImageChunk(last.passed[i])
              => last.passed[i].page_content \in EntryTexts(store)

(***************************************************************************)
(* Properties of the query flow (query, generate_response), under Spec.    *)
(***************************************************************************)
Answers == {InsufficientAnswer, GenerationError, QueryError}
               \cup {llm.answer : llm \in ChatModels}

\* The call of the chat model was made and failed.
ChatFailed == last.llmCalls > 0 /\ ~last.llm.ok

\* The index search failed (query only).
SearchFailed == last.op = "query" /\ last.searchFailed

\* C3: whatever fails in the search or in the chat-model call, query and
\* generate_response return normally, with an answer string and an empty
\* list of sources.
C3_QueryNeverRaises ==
    (last.op \in {"query", "generate_response"} /\ (ChatFailed \/ SearchFailed))
    => /\ ~last.raised
       /\ last.response.answer \in Answers
       /\ last.response.sources = <<>>

\* Either operation after a failed call of the chat model, made with
\* retrieved documents at hand.
C3_Witness ==
    \/ /\ last.op = "query"
       /\ ChatFailed
       /\ last.retrieved # <<>>
    \/ /\ last.op = "generate_response"
       /\ ChatFailed
       /\ last.docs # <<>>

\* C4: generate_response(question, []) gives the fixed answer, no sources,
\* and calls the chat model zero times.
C4_EmptyContextShortCircuit ==
    (last.op = "generate_response" /\ last.docs = <<>>)
    => /\ last.response.answer = InsufficientAnswer
       /\ last.response.sources = <<>>
       /\ last.llmCalls = 0
       /\ ~last.raised

C4_Witness ==
    /\ last.op = "generate_response"
    /\ last.docs = <<>>
    /\ last.llm.ok

\* C5 (as claimed): when the search of a query returns nothing, the answer
\* is the fixed insufficient-information answer and the chat model is not
\* called.
C5_QueryShortCircuit ==
    (last.op = "query" /\ last.retrieved = <<>>)
    => /\ last.response.answer = InsufficientAnswer
       /\ last.llmCalls = 0

\* C6 (as claimed): when the embedding call made for the question fails,
\* the result of query reports an error.
C6_EmbeddingFailureSurfaced ==
    (/\ last.op = "query"
     /\ last.before.store.present
     /\ last.failAt \in {1, 2})
    => \/ HasKey(last.response, "error")
       \/ last.response.answer \in {QueryError, GenerationError}

(***************************************************************************)
(* Properties of the vector index (VectorStore), under SpecStore.          *)
(***************************************************************************)
Ingest == last.op \in {"initialize_store", "add_documents"}

\* C7 (as claimed): every entry the index gets from initialize_store or
\* add_documents holds the metadata of the chunk it was built from.
C7_MetadataKept ==
    (Ingest /\ ~last.raised /\ last.documents # <<>>)
    => LET base == Len(store.entries) - Len(last.documents) IN
       \A i \in 1..Len(last.documents) :
          store.entries[base + i].metadata = last.documents[i].metadata

\* C8 (as claimed): initialize_store given an empty list reports an error
\* and the index is left as it was.
C8_EmptyInitializeFails ==
    (last.op = "initialize_store" /\ last.documents = <<>>)
    => /\ last.raised
       /\ store = last.before.store

\* C8 (amended): initialize_store given an empty list returns normally,
\* calls no service, and leaves the index in memory and on disk as it was.
C8_EmptyInitializeReturns ==
    (last.op = "initialize_store" /\ last.documents = <<>>)
    => /\ ~last.raised
       /\ last.calls = 0
       /\ store = last.before.store
       /\ disk = last.before.disk

\* initialize_store([]) on an index that was never initialized.
C8_Witness ==
    /\ last.op = "initialize_store"
    /\ last.documents = <<>>
    /\ ~last.before.store.present
    /\ ~store.present

\* C9: a search on a store that is None returns no result, raises nothing,
\* calls no remote service and leaves the store None.
C9_SearchBeforeInitialization ==
    (last.op = "similarity_search" /\ ~last.before.store.present)
    => /\ last.results = <<>>
       /\ ~last.raised
       /\ last.calls = 0
       /\ ~store.present
       /\ disk = last.before.disk

\* Such a search while an index lies persisted that was not loaded, the
\* embedding service being up.
C9_Witness ==
    /\ last.op = "similarity_search"
    /\ ~last.before.store.present
    /\ disk.present
    /\ last.failAt = 0

Unembeddable(doc) == IsImageChunk(doc) /\ ~HasKey(doc.metadata, "embedding")

\* C10: initialize_store and add_documents, given a batch with an image
\* chunk whose metadata has no "embedding", raise and leave the index in
\* memory and on disk exactly as it was.
C10_ImageWithoutVector ==
    (Ingest /\ \E i \in 1..Len(last.documents) : Unembeddable(last.documents[i]))
    => /\ last.raised
       /\ store = last.before.store
       /\ disk = last.before.disk

\* add_documents on an initialized index, the image chunk coming after a
\* chunk that was embedded, with no other fault.
C10_Witness ==
    /\ last.op = "add_documents"
    /\ last.before.store.present
    /\ last.fault = "none"
    /\ \E i, j \in 1..Len(last.documents) :
          /\ i < j
          /\ ~IsImageChunk(last.documents[i])
          /\ Unembeddable(last.documents[j])
    /\ last.calls > 0

\* The vector get_embedding gives for an embeddable document.
VectorOf(doc) == get_embedding(doc, TRUE).vector

\* A document whose vector has another dimension than the index.
Mismatched(doc, index) ==
    ~Unembeddable(doc) /\ Len(VectorOf(doc)) # index.dim

\* C11: add_documents on an initialized index, given a document whose
\* vector has another dimension than the index, raises and leaves the index
\* in memory and on disk as it was.
C11_DimensionEnforced ==
    (/\ last.op = "add_documents"
     /\ last.before.store.present
     /\ \E i \in 1..Len(last.documents) :
           Mismatched(last.documents[i], last.before.store))
    => /\ last.raised
       /\ store = last.before.store
       /\ disk = last.before.disk

\* Every document of the batch was embedded, one of the right dimension
\* ahead of one of another dimension, and nothing else failed.
C11_Witness ==
    /\ last.op = "add_documents"
    /\ last.before.store.present
    /\ last.before.store.entries # <<>>
    /\ last.fault = "none"
    /\ last.calls > 0
    /\ \A i \in 1..Len(last.documents) : ~Unembeddable(last.documents[i])
    /\ \E i, j \in 1..Len(last.documents) :
          /\ i < j
          /\ ~Mismatched(last.documents[i], last.before.store)
          /\ Mismatched(last.documents[j], last.before.store)

\* The results of every search of an index, the embedding service up.
SearchResults(index) ==
    [question \in Questions |->
        [k \in 1..MaxK |-> similarity_search(index, question, k, 0).results]]

\* load_index in a VectorStore holding st gives what the index holds.
LoadsBack(st) ==
    LET loaded == load_index(st, disk, TRUE) IN
    /\ loaded.result
    /\ loaded.store.entries = store.entries
    /\ SearchResults(loaded.store) = SearchResults(store)

C15_IngestPersists ==
    (/\ last.op = "process_documents"
     /\ ~last.raised
     /\ Len(store.entries) > Len(last.before.store.entries))
    => /\ disk = store
       /\ new_vector_store(disk, TRUE) = store
       /\ SubSeq(store.entries, 1, Len(last.before.store.entries))
              = last.before.store.entries

\* A second ingest, into an index that was saved with an entry before.
C15_Witness ==
    /\ last.op = "process_documents"
    /\ ~last.raised
    /\ last.before.store.entries # <<>>
    /\ last.before.disk = last.before.store
    /\ Len(store.entries) > Len(last.before.store.entries)
    /\ disk # last.before.disk

\* C17 (as claimed): once process_documents has returned to the "Process
\* All Content" handler every file of the list is unlinked and the session
\* entries are cleared, and no temporary WAV file made for a video is left,
\* whether the audio extraction succeeded or not.
C17_TempFilesDeleted ==
    (last.op = "process_documents" /\ last.file_paths # <<>>)
    => /\ ~last.raised
          => /\ last.cleanup.unlinked
                   = {last.file_paths[i] : i \in 1..Len(last.file_paths)}
             /\ last.cleanup.cleared
       /\ last.temps = {}

\* C16: query, whether it answers or returns the error answer, leaves the
\* index in memory and on disk as it was, and the sources it returns when
\* nothing fails are those of a search of the entries the index holds.
C16_QueryLeavesIndex ==
    last.op = "query"
    => /\ store = last.before.store
       /\ disk = last.before.disk
       /\ (last.failAt = 0 /\ last.llm.ok)
              => last.response.sources
                    = Sources(SearchResults(store)[last.query][last.k])

\* A query on an index with entries that ended with the error answer, its
\* search having failed as well.
C16_Witness ==
    /\ last.op = "query"
    /\ store.entries # <<>>
    /\ last.searchFailed
    /\ HasKey(last.response, "error")

(***************************************************************************)
(* Properties of the text extractor and the chunker, under SpecText.       *)
(***************************************************************************)
\* The file is opened and read without error.
ReadOk(path) == FileAt(path).exists /\ FileAt(path).ok

Blank(text) == \A i \in 1..Len(text) : IsSpace(text[i])

\* C13 (as claimed): process_text_file returns exactly one Record for every
\* file it reads without error, whatever the content, and none only when
\* the read failed.
C13_OneRecordPerReadFile ==
    last.op = "process_text_file"
    => /\ ~last.raised
       /\ ReadOk(last.path) => Len(last.result) = 1
       /\ last.result = <<>> => ~ReadOk(last.path)

\* C13 (amended): process_text_file returns exactly one Record, holding the
\* cleaned content and the path, for a file read without error whose
\* content is not empty or whitespace only; it returns no Record when the
\* read failed or the content is empty or whitespace only; it never raises.
C13_OneRecordPerNonBlankFile ==
    last.op = "process_text_file"
    => /\ ~last.raised
       /\ (ReadOk(last.path) /\ ~Blank(FileAt(last.path).raw))
             => /\ Len(last.result) = 1
                /\ last.result[1].page_content # <<>>
                /\ last.result[1].page_content
                       = clean_text(FileAt(last.path).raw)
                /\ last.result[1].metadata.source = last.path
       /\ (~ReadOk(last.path) \/ Blank(FileAt(last.path).raw))
             => last.result = <<>>

\* A file of whitespace only, read without error.
C13_Witness ==
    /\ last.op = "process_text_file"
    /\ ReadOk(last.path)
    /\ FileAt(last.path).raw # <<>>
    /\ Blank(FileAt(last.path).raw)
    /\ last.result = <<>>

\* The content of the Record split_documents was given.
Content == last.documents[1].page_content

\* Position p of the content lies in one of the chunks.
Covered(p) ==
    \E i \in 1..Len(last.spans) : last.spans[i][1] <= p /\ p <= last.spans[i][2]

\* The chunks are the parts of the content at the spans, one after the
\* other in source order, none empty or longer than chunk_size, two
\* consecutive ones sharing at most chunk_overlap characters; an empty
\* content has no chunk.
ChunksInBounds ==
    /\ Len(last.chunks) = Len(last.spans)
    /\ \A i \in 1..Len(last.chunks) :
          /\ last.chunks[i].page_content
                = SubSeq(Content, last.spans[i][1], last.spans[i][2])
          /\ last.chunks[i].page_content # <<>>
          /\ Len(last.chunks[i].page_content) <= chunk_size
          /\ last.chunks[i].metadata = last.documents[1].metadata
    /\ \A i \in 1..(Len(last.spans) - 1) :
          /\ last.spans[i][1] < last.spans[i + 1][1]
          /\ last.spans[i][2] - last.spans[i + 1][1] + 1 <= chunk_overlap
    /\ Content = <<>> => last.chunks = <<>>

\* C14 (as claimed): the chunks of a Record are in bounds and together
\* cover the Record's content.
C14_ChunkBounds ==
    last.op = "split_documents"
    => /\ ChunksInBounds
       /\ \A p \in 1..Len(Content) : Covered(p)

\* C14 (amended): the chunks of a Record are in bounds and together cover
\* every character of the content that is not whitespace (the whitespace
\* at the two ends of a chunk is stripped).
C14_ChunkBoundsButWhitespace ==
    last.op = "split_documents"
    => /\ ChunksInBounds
       /\ \A p \in 1..Len(Content) : ~IsSpace(Content[p]) => Covered(p)

\* A content cut into three chunks or more, two of which share characters
\* and two of which leave out the whitespace between them.
C14_Witness ==
    /\ last.op = "split_documents"
    /\ Len(last.spans) >= 3
    /\ \E i \in 1..(Len(last.spans) - 1) :
          last.spans[i][2] >= last.spans[i + 1][1]
    /\ \E p \in 1..Len(Content) : IsSpace(Content[p]) /\ ~Covered(p)

=============================================================================
